---- MODULE Spec2Model ----
(***************************************************************************)
(* Model of the background-remover desktop application:                    *)
(*   - background_remover.py: calculate_target_size, the resize step of    *)
(*     process_image, process_files / _process_files (the batch worker);   *)
(*   - app.py: FileUploaderApp (file list, submit, reset, download, the    *)
(*     root.after callbacks the worker schedules on the UI thread).        *)
(***************************************************************************)
EXTENDS Integers, Sequences, FiniteSets, TLC

(***************************************************************************)
(* Part 1. Python float arithmetic (IEEE-754 binary64, round to nearest,   *)
(* ties to even) as calculate_target_size uses it.  A positive double is   *)
(* [m |-> <<b1..b53>>, e |-> k] with b1 = 1, standing for                   *)
(* (b1 b2 ... b53 read as a binary integer) * 2^k.                          *)
(***************************************************************************)

\* Width of a binary64 significand.
MantissaBits == 53

\* Digits per limb when a significand is multiplied by a small integer.
LimbBits == 14

\* The number of binary digits of n (0 for 0); n < 2^20.
BitLen(n) == IF n = 0 THEN 0 ELSE CHOOSE k \in 1..20 : 2^(k-1) <= n /\ n < 2^k

\* 2^i mod b by repeated squaring; b*b stays below 2^30.
RECURSIVE Pow2Mod(_, _)
Pow2Mod(i, b) ==
    IF i = 0 THEN 1 % b
    ELSE LET h == Pow2Mod(i \div 2, b)
         IN IF i % 2 = 1 THEN (((h * h) % b) * 2) % b ELSE (h * h) % b

\* Long division a / b: the remainder after i fractional binary digits, and
\* the j-th fractional digit of the quotient (j >= 1).
DivRem(a, b, i) == ((a % b) * Pow2Mod(i, b)) % b
FracDigit(a, b, j) == (2 * DivRem(a, b, j - 1)) \div b

\* The first MantissaBits+1 significant binary digits of a / b, the exponent
\* of the last one, and whether a remainder is left below it.
DivDigits(a, b) ==
    LET q0   == a \div b
        L0   == BitLen(q0)
        \* leading zero fractional digits to skip when the quotient is < 1
        skip == IF q0 > 0 THEN 0
                ELSE (CHOOSE j \in 1..20 : a * 2^j >= b /\ a * 2^(j-1) < b) - 1
        frac == (MantissaBits + 1) - L0 + skip
    IN [bits   |-> [i \in 1..(MantissaBits + 1) |->
                      IF i <= L0 THEN (q0 \div 2^(L0 - i)) % 2
                      ELSE FracDigit(a, b, i - L0 + skip)],
        exp    |-> 0 - frac,
        sticky |-> DivRem(a, b, frac) # 0]

\* s + 1 on a significand; all ones carries out into 1 followed by zeros
\* (one digit longer).
IncBits(s) ==
    LET n == Len(s)
        zeros == {i \in 1..n : s[i] = 0}
    IN IF zeros = {} THEN [i \in 1..(n + 1) |-> IF i = 1 THEN 1 ELSE 0]
       ELSE LET p == CHOOSE i \in zeros : \A j \in zeros : j <= i
            IN [i \in 1..n |-> IF i < p THEN s[i] ELSE IF i = p THEN 1 ELSE 0]

\* Round the exact value bits * 2^exp (+ something below the last bit when
\* sticky) to a double: nearest, ties to even.  bits starts with a 1.
RoundToDouble(bits, exp, sticky) ==
    LET n == Len(bits) IN
    IF n <= MantissaBits
    THEN [m |-> [i \in 1..MantissaBits |-> IF i <= n THEN bits[i] ELSE 0],
          e |-> exp - (MantissaBits - n)]
    ELSE
      LET keep  == [i \in 1..MantissaBits |-> bits[i]]
          guard == bits[MantissaBits + 1]
          rest  == sticky \/ \E i \in (MantissaBits + 2)..n : bits[i] = 1
          up    == guard = 1 /\ (rest \/ keep[MantissaBits] = 1)
          e0    == exp + (n - MantissaBits)
          inc   == IncBits(keep)
      IN IF ~up THEN [m |-> keep, e |-> e0]
         ELSE IF Len(inc) = MantissaBits THEN [m |-> inc, e |-> e0]
         ELSE [m |-> [i \in 1..MantissaBits |-> inc[i]], e |-> e0 + 1]

\* Python's a / b for positive ints a, b: the correctly rounded quotient.
FDiv(a, b) ==
    LET d == DivDigits(a, b)
    IN RoundToDouble(d.bits, d.exp, d.sticky)

\* The integer a short bit sequence stands for (at most LimbBits digits).
RECURSIVE FromBits(_)
FromBits(s) ==
    IF s = <<>> THEN 0
    ELSE 2 * FromBits(SubSeq(s, 1, Len(s) - 1)) + s[Len(s)]

\* Limb k (k = 0 is the least significant) of the significand m.
Limb(m, k) ==
    LET hi == Len(m) - LimbBits * k
        lo == IF hi - LimbBits + 1 < 1 THEN 1 ELSE hi - LimbBits + 1
    IN FromBits(SubSeq(m, lo, hi))

\* The binary digits of m * w, most significant first, for a significand m
\* and an integer 1 <= w < 2^16: schoolbook multiplication limb by limb.
MulBits(m, w) ==
    LET B  == 2^LimbBits
        t0 == Limb(m, 0) * w
        t1 == Limb(m, 1) * w + t0 \div B
        t2 == Limb(m, 2) * w + t1 \div B
        t3 == Limb(m, 3) * w + t2 \div B
        r  == <<t0 % B, t1 % B, t2 % B, t3 % B, t3 \div B>>
        Digit(p) == (r[(p \div LimbBits) + 1] \div 2^(p % LimbBits)) % 2
        n  == 1 + CHOOSE p \in 0..(5 * LimbBits - 1) :
                    Digit(p) = 1 /\ \A q \in (p + 1)..(5 * LimbBits - 1) : Digit(q) = 0
    IN [i \in 1..n |-> Digit(n - i)]

\* Python's w * x for a positive int w and a double x: the exact product,
\* rounded once.
FMulInt(w, x) == RoundToDouble(MulBits(x.m, w), x.e, FALSE)

\* x < y on positive doubles.
BitsLess(s, t) ==
    \E i \in 1..Len(s) : s[i] < t[i] /\ \A j \in 1..(i - 1) : s[j] = t[j]

FLess(x, y) == x.e < y.e \/ (x.e = y.e /\ BitsLess(x.m, y.m))

\* Python's min(x, y): y only when y < x.
FMin(x, y) == IF FLess(y, x) THEN y ELSE x

\* Python's int(x) for a positive double below 2^LimbBits: truncation.
FInt(x) ==
    IF MantissaBits + x.e <= 0 THEN 0
    ELSE FromBits(SubSeq(x.m, 1, MantissaBits + x.e))

Min(a, b) == IF a <= b THEN a ELSE b

(***************************************************************************)
(* Part 2. calculate_target_size and the resize step of process_image.     *)
(***************************************************************************)

MaxWidth  == 1400
MaxHeight == 2400

\* calculate_target_size scaling by the larger ratio (max for min).
calculate_target_size_max(original_size) ==
    LET orig_width   == original_size[1]
        orig_height  == original_size[2]
        width_ratio  == FDiv(MaxWidth, orig_width)
        height_ratio == FDiv(MaxHeight, orig_height)
        scale        == IF FLess(width_ratio, height_ratio)
                        THEN height_ratio ELSE width_ratio
        new_width    == FInt(FMulInt(orig_width, scale))
        new_height   == FInt(FMulInt(orig_height, scale))
    IN <<Min(new_width, MaxWidth), Min(new_height, MaxHeight)>>

calculate_target_size(original_size) ==
    LET orig_width   == original_size[1]
        orig_height  == original_size[2]
        width_ratio  == FDiv(MaxWidth, orig_width)
        height_ratio == FDiv(MaxHeight, orig_height)
        scale        == FMin(width_ratio, height_ratio)
        new_width    == FInt(FMulInt(orig_width, scale))
        new_height   == FInt(FMulInt(orig_height, scale))
    IN <<Min(new_width, MaxWidth), Min(new_height, MaxHeight)>>

\* The inputs the size specification draws: every side up to MaxSide and the
\* sides around the limits (55 and 79 are sides where the double product falls
\* just below an integer).
MaxSide == 12
EdgeSides == {55, 79, 1399, 1400, 1401, 2399, 2400, 2401}
Sides == (1..MaxSide) \cup EdgeSides

(***************************************************************************)
(* Part 3. The application state.                                          *)
(***************************************************************************)

VARIABLES
    \* FileUploaderApp (app.py)
    valid_files,         \* self.valid_files: the one list object, mutated in place
    current_zip_path,    \* self.current_zip_path: None or a batch's temp ZIP
    background_process,  \* self.background_process: None or the last subscription
    submit_enabled,      \* state of browse_button / submit_button / gpu_checkbox
    download_shown,      \* download_frame is placed
    closed,              \* root.destroy() has run
    ui_queue,            \* callbacks scheduled with root.after(0, ...), in order
    \* the file system
    disk,                \* temp ZIP files that exist, named by their batch
    \* the batches (one subscription and one worker each)
    next_batch,          \* id the next dispatched batch gets
    disposed,            \* dispose() was called on the batch's subscription
    wpc,                 \* where the batch's worker is
    idx,                 \* the worker's list iterator: index of the next item
    staging,             \* file names in the worker's temp_dir
    archive,             \* entries of the ZIP the worker returned
    log,                 \* history of the run: per item the loop took, did it succeed
    submitted,           \* history of the run: valid_files as it stood at submission
    delivered,           \* history: callbacks of the batch run on the UI thread
    \* calculate_target_size on its own (SizeSpec)
    size_pc, original_size, target_size

app_vars   == <<valid_files, current_zip_path, background_process, submit_enabled,
                download_shown, closed, ui_queue>>
run_vars   == <<wpc, idx, staging, archive, log, submitted, delivered>>
batch_vars == <<next_batch, disposed, run_vars>>
size_vars  == <<size_pc, original_size, target_size>>
vars       == <<app_vars, disk, batch_vars, size_vars>>

None == 0
MaxBatches == 2
Batches == 1..MaxBatches

\* The files the user can pick.  Two share a stem; one is of no supported type.
Files ==
    { [dir |-> "C:\\a", stem |-> "x",     ext |-> ".png"],
      [dir |-> "C:\\b", stem |-> "x",     ext |-> ".JPG"],
      [dir |-> "C:\\a", stem |-> "notes", ext |-> ".txt"] }

\* A path as the Tk file dialog spells it (forward slashes).
DialogSpelling(p) ==
    [p EXCEPT !.dir = CASE p.dir = "C:\\a" -> "C:/a"
                        [] p.dir = "C:\\b" -> "C:/b"
                        [] OTHER -> p.dir]

\* os.path.normpath
normpath(p) ==
    [p EXCEPT !.dir = CASE p.dir = "C:/a" -> "C:\\a"
                        [] p.dir = "C:/b" -> "C:\\b"
                        [] OTHER -> p.dir]

\* str.lower on an extension
lower(e) ==
    CASE e = ".JPG" -> ".jpg"
      [] e = ".PNG" -> ".png"
      [] OTHER -> e

supported_file_types == {".png", ".jpeg", ".jpg", ".heic"}

\* Path(input_path).stem + "_processed.png"
filename(input_path) == input_path.stem \o "_processed.png"

Range(s) == {s[i] : i \in 1..Len(s)}

\* Most files one file dialog or one drop hands over.
MaxPick == 2

\* The lists one dialog or drop can hand to add_files: distinct files.
Picks ==
    {s \in UNION {[1..n -> Files] : n \in 1..MaxPick} :
        \A i, j \in 1..Len(s) : i # j => s[i] # s[j]}

\* add_files: existing_files is computed once, before the loop.
RECURSIVE add_loop(_, _, _)
add_loop(files, existing_files, file_paths) ==
    IF file_paths = <<>> THEN files
    ELSE LET clean_path == normpath(Head(file_paths))
         IN IF /\ lower(clean_path.ext) \in supported_file_types
               /\ clean_path \notin existing_files
            THEN add_loop(Append(files, clean_path), existing_files, Tail(file_paths))
            ELSE add_loop(files, existing_files, Tail(file_paths))

add_files(file_paths) ==
    valid_files' = add_loop(valid_files, Range(valid_files), file_paths)

InitApp ==
    /\ valid_files = <<>>
    /\ current_zip_path = None
    /\ background_process = None
    /\ submit_enabled = TRUE
    /\ download_shown = FALSE
    /\ closed = FALSE
    /\ ui_queue = <<>>
    /\ disk = {}
    /\ next_batch = 1
    /\ disposed = [b \in Batches |-> FALSE]
    /\ wpc = [b \in Batches |-> "idle"]
    /\ idx = [b \in Batches |-> 0]
    /\ staging = [b \in Batches |-> {}]
    /\ archive = [b \in Batches |-> {}]
    /\ log = [b \in Batches |-> <<>>]
    /\ submitted = [b \in Batches |-> <<>>]
    /\ delivered = [b \in Batches |-> <<>>]

\* The application after __init__; the size specification is switched off.
Init ==
    /\ InitApp
    /\ size_pc = "off"
    /\ original_size = <<1, 1>>
    /\ target_size = <<1, 1>>

(***************************************************************************)
(* Part 4. The UI thread: FileUploaderApp's handlers.  Message boxes change *)
(* no state and are taken as dismissed at once.                             *)
(***************************************************************************)

\* reset(): dispose the last subscription, delete the archive current_zip_path
\* names, clear the list in place, hide the download section, re-enable the
\* controls.  background_process itself is left as it is.
reset ==
    /\ disposed' = IF background_process # None
                   THEN [disposed EXCEPT ![background_process] = TRUE]
                   ELSE disposed
    /\ disk' = IF current_zip_path # None /\ current_zip_path \in disk
               THEN disk \ {current_zip_path}
               ELSE disk
    /\ valid_files' = <<>>
    /\ current_zip_path' = None
    /\ download_shown' = FALSE
    /\ submit_enabled' = TRUE

\* browse_files(): the Browse button (disabled while processing); an empty
\* selection adds nothing.
browse_files(file_paths) ==
    /\ ~closed
    /\ submit_enabled
    /\ add_files([i \in 1..Len(file_paths) |-> DialogSpelling(file_paths[i])])
    /\ UNCHANGED <<current_zip_path, background_process, submit_enabled,
                   download_shown, closed, ui_queue, disk, batch_vars, size_vars>>

\* handle_drop(): the <<Drop>> binding, which set_ui_state never removes.
handle_drop(file_paths) ==
    /\ ~closed
    /\ add_files(file_paths)
    /\ UNCHANGED <<current_zip_path, background_process, submit_enabled,
                   download_shown, closed, ui_queue, disk, batch_vars, size_vars>>

\* process_files(): the Process Files button.  The observable is built over
\* self.valid_files itself, not over a copy.
process_files(subscribe_raises) ==
    /\ ~closed
    /\ submit_enabled
    /\ next_batch <= MaxBatches
    /\ IF valid_files = <<>>
       THEN UNCHANGED vars                       \* "Please select files first."
       ELSE IF subscribe_raises
       THEN \* except Exception: self.handle_error(e), on the UI thread
            /\ reset
            /\ UNCHANGED <<background_process, closed, ui_queue, next_batch,
                           run_vars, size_vars>>
       ELSE /\ submit_enabled' = FALSE           \* set_ui_state(processing=True)
            /\ background_process' = next_batch
            /\ wpc' = [wpc EXCEPT ![next_batch] = "scheduled"]
            /\ submitted' = [submitted EXCEPT ![next_batch] = valid_files]
            /\ next_batch' = next_batch + 1
            /\ UNCHANGED <<valid_files, current_zip_path, download_shown, closed,
                           ui_queue, disk, disposed, idx, staging, archive, log,
                           delivered, size_vars>>

\* The Clear All button: command=self.reset, never disabled.
clear_all ==
    /\ ~closed
    /\ reset
    /\ UNCHANGED <<background_process, closed, ui_queue, next_batch, run_vars,
                   size_vars>>

\* on_close(): WM_DELETE_WINDOW.  reset(), then root.destroy(), which drops
\* the callbacks still pending; the pool's threads are not stopped.
on_close ==
    /\ ~closed
    /\ reset
    /\ closed' = TRUE
    /\ ui_queue' = <<>>
    /\ UNCHANGED <<background_process, next_batch, run_vars, size_vars>>

\* download_files(): the download button, which exists only while the
\* download section is shown.  choice is what the save dialog and the copy do.
download_files(choice) ==
    /\ ~closed
    /\ download_shown
    /\ IF current_zip_path = None \/ current_zip_path \notin disk
       THEN UNCHANGED vars                       \* "No files available"
       ELSE IF choice \in {"cancelled", "copy_failed"}
       THEN UNCHANGED vars
       ELSE /\ reset
            /\ UNCHANGED <<background_process, closed, ui_queue, next_batch,
                           run_vars, size_vars>>

\* One callback scheduled with root.after(0, ...) runs on the UI thread.
enable_download(zip_path) ==
    /\ current_zip_path' = zip_path
    /\ download_shown' = TRUE
    /\ UNCHANGED <<valid_files, submit_enabled, disk, disposed>>

handle_error == reset

set_ui_state_normal ==
    /\ submit_enabled' = TRUE
    /\ UNCHANGED <<valid_files, current_zip_path, download_shown, disk, disposed>>

run_after ==
    /\ ~closed
    /\ ui_queue # <<>>
    /\ LET call == Head(ui_queue) IN
       /\ ui_queue' = Tail(ui_queue)
       /\ delivered' = [delivered EXCEPT ![call.batch] = Append(@, call.cb)]
       /\ CASE call.cb = "enable_download" -> enable_download(call.batch)
            [] call.cb = "handle_error"    -> handle_error
            [] call.cb = "set_ui_state"    -> set_ui_state_normal
    /\ UNCHANGED <<background_process, closed, next_batch, wpc, idx, staging,
                   archive, log, submitted, size_vars>>

(***************************************************************************)
(* Part 5. The worker: process_files / _process_files on a pool thread,    *)
(* and the subscription's callbacks.                                       *)
(***************************************************************************)

\* root.after(0, cb, ...) called from the subscription's lambda.  A disposed
\* subscription's observer is stopped and calls no lambda; a destroyed root
\* takes no callback.
schedule(b, cb) ==
    IF disposed[b] \/ closed
    THEN UNCHANGED ui_queue
    ELSE ui_queue' = Append(ui_queue, [cb |-> cb, batch |-> b])

\* The pool thread takes up the scheduled subscription: a subscription
\* disposed before that never runs.  Otherwise _process_files starts:
\* initialize_interface, then the temp ZIP is created (delete=False).
worker_begin(b, init_raises) ==
    /\ wpc[b] = "scheduled"
    /\ IF disposed[b]
       THEN /\ wpc' = [wpc EXCEPT ![b] = "dropped"]
            /\ submitted' = [submitted EXCEPT ![b] = <<>>]
            /\ UNCHANGED <<disk, idx>>
       ELSE IF init_raises
       THEN /\ wpc' = [wpc EXCEPT ![b] = "raised"]
            /\ UNCHANGED <<disk, idx, submitted>>
       ELSE /\ wpc' = [wpc EXCEPT ![b] = "loop"]
            /\ disk' = disk \cup {b}
            /\ idx' = [idx EXCEPT ![b] = 1]
            /\ UNCHANGED submitted
    /\ UNCHANGED <<app_vars, next_batch, disposed, staging, archive, log,
                   delivered, size_vars>>

ItemOutcomes == {"ok", "decode_error", "process_error", "save_error"}

\* process_item without the inner try/except: a failing item leaves the loop
\* through the outer handler, which removes the temp ZIP and re-raises.
process_item_unguarded(b, outcome) ==
    /\ wpc[b] = "loop"
    /\ idx[b] <= Len(valid_files)
    /\ LET input_path == valid_files[idx[b]] IN
       /\ staging' = [staging EXCEPT ![b] =
                        IF outcome = "ok" THEN @ \cup {filename(input_path)} ELSE {}]
       /\ log' = [log EXCEPT ![b] = Append(@, outcome = "ok")]
    /\ idx' = [idx EXCEPT ![b] = IF outcome = "ok" THEN @ + 1 ELSE 0]
    /\ wpc' = [wpc EXCEPT ![b] = IF outcome = "ok" THEN "loop" ELSE "raised"]
    /\ disk' = IF outcome = "ok" THEN disk ELSE disk \ {b}
    /\ UNCHANGED <<app_vars, next_batch, disposed, archive, submitted,
                   delivered, size_vars>>

\* One pass of "for input_path in input_paths": the iterator reads the live
\* list at its index.  Any exception is caught, printed and skipped.
process_item(b, outcome) ==
    /\ wpc[b] = "loop"
    /\ idx[b] <= Len(valid_files)
    /\ LET input_path == valid_files[idx[b]] IN
       /\ staging' = [staging EXCEPT ![b] =
                        IF outcome = "ok" THEN @ \cup {filename(input_path)} ELSE @]
       /\ log' = [log EXCEPT ![b] = Append(@, outcome = "ok")]
    /\ idx' = [idx EXCEPT ![b] = @ + 1]
    /\ UNCHANGED <<app_vars, disk, next_batch, disposed, wpc, archive, submitted,
                   delivered, size_vars>>

\* create_zip whose exception handler re-raises without os.remove.
create_zip_no_cleanup(b, zip_raises) ==
    /\ wpc[b] = "loop"
    /\ idx[b] > Len(valid_files)
    /\ IF zip_raises
       THEN /\ wpc' = [wpc EXCEPT ![b] = "raised"]
            /\ UNCHANGED archive
       ELSE /\ archive' = [archive EXCEPT ![b] = staging[b]]
            /\ wpc' = [wpc EXCEPT ![b] = "returned"]
    /\ staging' = [staging EXCEPT ![b] = {}]
    /\ idx' = [idx EXCEPT ![b] = 0]
    /\ UNCHANGED <<app_vars, disk, next_batch, disposed, log, submitted,
                   delivered, size_vars>>

\* The iterator is exhausted: write the ZIP from temp_dir, and leave the
\* "with TemporaryDirectory()" block, which deletes temp_dir.  On an exception
\* the temp ZIP is removed and the exception re-raised.
create_zip(b, zip_raises) ==
    /\ wpc[b] = "loop"
    /\ idx[b] > Len(valid_files)
    /\ IF zip_raises
       THEN /\ disk' = disk \ {b}
            /\ wpc' = [wpc EXCEPT ![b] = "raised"]
            /\ UNCHANGED archive
       ELSE /\ archive' = [archive EXCEPT ![b] = staging[b]]
            /\ wpc' = [wpc EXCEPT ![b] = "returned"]
            /\ UNCHANGED disk
    /\ staging' = [staging EXCEPT ![b] = {}]
    /\ idx' = [idx EXCEPT ![b] = 0]
    /\ UNCHANGED <<app_vars, next_batch, disposed, log, submitted, delivered,
                   size_vars>>

\* The run's history is closed once its result is handed over.
close_history(b) ==
    /\ log' = [log EXCEPT ![b] = <<>>]
    /\ submitted' = [submitted EXCEPT ![b] = <<>>]

\* map() hands the result to on_next, ...
emit_next(b) ==
    /\ wpc[b] = "returned"
    /\ wpc' = [wpc EXCEPT ![b] = "emitted"]
    /\ schedule(b, "enable_download")
    /\ close_history(b)
    /\ UNCHANGED <<valid_files, current_zip_path, background_process,
                   submit_enabled, download_shown, closed, disk, next_batch,
                   disposed, idx, staging, archive, delivered, size_vars>>

\* on_completed wired to enable_download instead of set_ui_state.
emit_completed_as_next(b) ==
    /\ wpc[b] = "emitted"
    /\ wpc' = [wpc EXCEPT ![b] = "completed"]
    /\ schedule(b, "enable_download")
    /\ UNCHANGED <<valid_files, current_zip_path, background_process,
                   submit_enabled, download_shown, closed, disk, next_batch,
                   disposed, idx, staging, archive, log, submitted, delivered,
                   size_vars>>

\* ... then rx.of completes: on_completed.
emit_completed(b) ==
    /\ wpc[b] = "emitted"
    /\ wpc' = [wpc EXCEPT ![b] = "completed"]
    /\ schedule(b, "set_ui_state")
    /\ UNCHANGED <<valid_files, current_zip_path, background_process,
                   submit_enabled, download_shown, closed, disk, next_batch,
                   disposed, idx, staging, archive, log, submitted, delivered,
                   size_vars>>

\* map() catches what _process_files raised: on_error.
emit_error(b) ==
    /\ wpc[b] = "raised"
    /\ wpc' = [wpc EXCEPT ![b] = "failed"]
    /\ schedule(b, "handle_error")
    /\ close_history(b)
    /\ UNCHANGED <<valid_files, current_zip_path, background_process,
                   submit_enabled, download_shown, closed, disk, next_batch,
                   disposed, idx, staging, archive, delivered, size_vars>>

Next ==
    \/ \E file_paths \in Picks : browse_files(file_paths)
    \/ \E file_paths \in Picks : handle_drop(file_paths)
    \/ \E subscribe_raises \in BOOLEAN : process_files(subscribe_raises)
    \/ clear_all
    \/ on_close
    \/ \E choice \in {"cancelled", "copy_failed", "saved"} : download_files(choice)
    \/ run_after
    \/ \E b \in Batches, init_raises \in BOOLEAN : worker_begin(b, init_raises)
    \/ \E b \in Batches, outcome \in ItemOutcomes : process_item(b, outcome)
    \/ \E b \in Batches, zip_raises \in BOOLEAN : create_zip(b, zip_raises)
    \/ \E b \in Batches : emit_next(b)
    \/ \E b \in Batches : emit_completed(b)
    \/ \E b \in Batches : emit_error(b)

Spec == Init /\ [][Next]_vars

(***************************************************************************)
(* Part 6. calculate_target_size on its own: process_image's resize step   *)
(* for every size the trimmed image can have.                              *)
(***************************************************************************)

SizeInit ==
    /\ InitApp
    /\ size_pc = "input"
    /\ original_size \in Sides \X Sides
    /\ target_size = <<0, 0>>

\* target_size = calculate_target_size(rotated.size)
compute_target_size ==
    /\ size_pc = "input"
    /\ target_size' = calculate_target_size(original_size)
    /\ size_pc' = "sized"
    /\ UNCHANGED <<original_size, app_vars, disk, batch_vars>>

\* rotated.resize(target_size, Image.LANCZOS): Pillow raises ValueError
\* ("height and width must be > 0") for an empty target.
resize ==
    /\ size_pc = "sized"
    /\ size_pc' = IF target_size[1] >= 1 /\ target_size[2] >= 1
                  THEN "resized" ELSE "raised"
    /\ UNCHANGED <<original_size, target_size, app_vars, disk, batch_vars>>

SizeNext == compute_target_size \/ resize

SizeSpec == SizeInit /\ [][SizeNext]_vars

(***************************************************************************)
(* Part 7. The properties.                                                 *)
(***************************************************************************)

NumOk(l) == Cardinality({i \in 1..Len(l) : l[i]})

Count(s, x) == Cardinality({i \in 1..Len(s) : s[i] = x})

\* How often callback cb of batch b has run or is waiting on the UI thread.
Calls(b, cb) == Count(delivered[b], cb) + Count(ui_queue, [cb |-> cb, batch |-> b])

\* A pool thread is busy with batch b.
WorkerRunning(b) == wpc[b] \in {"scheduled", "loop", "returned", "emitted", "raised"}

\* The dispatcher's view of a batch.
BatchState(b) ==
    CASE wpc[b] = "idle"                                  -> "Idle"
      [] wpc[b] \in {"scheduled", "loop"}                 -> "Running"
      [] wpc[b] \in {"returned", "emitted", "completed"}  -> "Completed"
      [] wpc[b] \in {"raised", "failed"}                  -> "Failed"
      [] wpc[b] = "dropped"                               -> "Cancelled"

\* C1: the archive _process_files returns holds exactly one entry per
\* successfully processed input (N inputs taken, M failed: N - M entries).
C1_OneEntryPerSuccess ==
    \A b \in Batches :
        wpc[b] = "returned" => Cardinality(archive[b]) = NumOk(log[b])

\* C2: at most one batch worker executes _process_files at any time.
C2_SingleFlight ==
    Cardinality({b \in Batches : wpc[b] = "loop"}) <= 1

\* C3: in _process_files a failing item never aborts the batch: the item is
\* skipped (nothing staged, the temp ZIP kept), the loop goes on with the next
\* index, it is left only when the list is exhausted, and the batch raises
\* only out of the archive step, never out of an item.
C3_FailureIsolation ==
    [][\A b \in Batches :
         /\ (wpc[b] = "loop" /\ log'[b] = Append(log[b], FALSE))
               => /\ wpc'[b] = "loop"
                  /\ idx'[b] = idx[b] + 1
                  /\ staging'[b] = staging[b]
                  /\ b \in disk'
         /\ (wpc[b] = "loop" /\ wpc'[b] = "loop" /\ idx'[b] # idx[b])
               => /\ idx'[b] = idx[b] + 1
                  /\ Len(log'[b]) = idx[b]
         /\ (wpc[b] = "loop" /\ wpc'[b] # "loop")
               => /\ idx[b] > Len(valid_files)
                  /\ log'[b] = log[b]
                  /\ Len(log[b]) = idx[b] - 1
                  /\ wpc'[b] \in {"returned", "raised"}
      ]_vars

\* C3 happens: a batch whose first item failed went on, took a later item
\* successfully and returned an archive holding it.
C3_Witness ==
    \E b \in Batches :
        /\ wpc[b] = "returned"
        /\ log[b] = <<FALSE, TRUE>>
        /\ archive[b] # {}

\* C4: once reset() has disposed the last subscription, no callback of that
\* batch reaches the UI: current_zip_path stays None and the download section
\* stays hidden until a new batch is submitted.
C4_NoSignalAfterDispose ==
    \A b \in Batches :
        (background_process = b /\ disposed[b])
            => (current_zip_path = None /\ ~download_shown)

\* C5: once no worker is running, the only batch archives on disk are the one
\* current_zip_path names and those still being handed to the UI thread.
C5_NoOrphanArchive ==
    (\A b \in Batches : ~WorkerRunning(b))
        => \A z \in disk :
              \/ z = current_zip_path
              \/ Count(ui_queue, [cb |-> "enable_download", batch |-> z]) > 0

\* C6: a batch goes Idle -> Running -> {Completed, Failed} (or is cancelled
\* before it starts); enable_download and handle_error together are called at
\* most once for it, enable_download only when Completed and handle_error only
\* when Failed, each from the root.after queue; and a batch whose subscription
\* was never disposed, in a window that is still open, gets exactly one.
C6_Outcome ==
    \A b \in Batches :
        LET en == Calls(b, "enable_download")
            er == Calls(b, "handle_error")
        IN /\ en + er <= 1
           /\ en = 1 => BatchState(b) = "Completed"
           /\ er = 1 => BatchState(b) = "Failed"
           /\ (~disposed[b] /\ ~closed /\ wpc[b] \in {"emitted", "completed"}) => en = 1
           /\ (~disposed[b] /\ ~closed /\ wpc[b] = "failed") => er = 1

C6_Transition(b) ==
    \/ BatchState(b)' = BatchState(b)
    \/ BatchState(b) = "Idle" /\ BatchState(b)' = "Running"
    \/ BatchState(b) = "Running" /\ BatchState(b)' \in {"Completed", "Failed", "Cancelled"}

C6_ExactlyOneOutcome ==
    [][/\ C6_Outcome'
       /\ \A b \in Batches :
            /\ C6_Transition(b)
            /\ delivered'[b] # delivered[b]
                 => /\ ui_queue # <<>>
                    /\ Head(ui_queue).batch = b
                    /\ delivered'[b] = Append(delivered[b], Head(ui_queue).cb)
                    /\ ui_queue' = Tail(ui_queue)
      ]_vars

\* C6 happens: a batch that was never disposed completed and its
\* enable_download has run on the UI thread.
C6_Witness ==
    \E b \in Batches :
        /\ wpc[b] = "completed"
        /\ ~disposed[b]
        /\ Count(delivered[b], "enable_download") = 1
        /\ current_zip_path = b

WidthGoverns(w, h) == MaxWidth * h <= MaxHeight * w
ExactNum(w, h) == IF WidthGoverns(w, h) THEN <<MaxWidth * w, MaxWidth * h>>
                                        ELSE <<MaxHeight * w, MaxHeight * h>>
ExactDen(w, h) == IF WidthGoverns(w, h) THEN w ELSE h

Abs(x) == IF x < 0 THEN 0 - x ELSE x

C10_NonEmptyTarget ==
    /\ size_pc \in {"sized", "resized", "raised"}
          => (target_size[1] >= 1 /\ target_size[2] >= 1)
    /\ size_pc # "raised"

\* C9: the worker iterates exactly the list as it stood at submission: each
\* item it takes is that list's item at the index, and it leaves the loop
\* after that list's last item.
C9_IteratesSubmittedList ==
    [][\A b \in Batches :
         /\ (wpc[b] = "loop" /\ idx'[b] = idx[b] + 1)
               => /\ idx[b] <= Len(submitted[b])
                  /\ valid_files[idx[b]] = submitted[b][idx[b]]
         /\ (wpc[b] = "loop" /\ wpc'[b] \in {"returned", "raised"})
               => idx[b] = Len(submitted[b]) + 1
      ]_vars

====
